---------------------------- MODULE Spec2Model ----------------------------
(***************************************************************************)
(* backend/main.py: a Flask application with one route, GET /api/test,     *)
(* started with app.run(host='127.0.0.1', port=5000, debug=True).          *)
(*                                                                         *)
(* The module models the script position by position (app = Flask(...),    *)
(* @app.route, the __main__ guard, app.run), the operating system's port   *)
(* table, and the handling of HTTP requests by what the calls of the       *)
(* script set up: the URL map (Flask's own static rule and the /api/test   *)
(* rule, with the methods Flask adds to methods=['GET']) and, because of   *)
(* debug=True, the Werkzeug debugger middleware that app.run wraps round   *)
(* the application.                                                        *)
(*                                                                         *)
(* Outside the model: malformed HTTP (answered by the HTTP server before   *)
(* the application is called), the reloader's child process (it serves on  *)
(* the socket its parent bound), and debugger requests that carry a valid  *)
(* PIN or PIN cookie (they run arbitrary code on behalf of whoever reads   *)
(* the server's terminal).                                                 *)
(***************************************************************************)
EXTENDS Integers, Sequences, FiniteSets, TLC

(***************************** bounds ************************************)
NumProcs == 2        \* processes that load main.py
MaxInFlight == 2     \* connections open at the same time

Procs == 1 .. NumProcs
Conns == 1 .. MaxInFlight

(************************ literals of main.py *****************************)
Host == "127.0.0.1"
Port == 5000
Debug == TRUE
MainName == "__main__"
OtherName == "main"          \* __name__ when the module is imported
ApiRule == <<"api", "test">> \* '/api/test', split at '/'
RouteMethods == {"GET"}      \* methods=['GET']
Payload == [message |-> "Python backend is working!"]

(************************** requests **************************************)
Methods == {"GET", "HEAD", "POST", "DELETE", "OPTIONS"}

\* request paths, split at '/': /api/test, /api/test/, /unknown,
\* /static/app.js, /console (no path has two slashes in a row)
Paths ==
    { <<"api", "test">>, <<"api", "test", "">>, <<"unknown">>,
      <<"static", "app.js">>, <<"console">> }

QNone == ""
QPlain == "x=1"
QResource == "__debugger__=yes&cmd=resource&f=style.css"
QNoResource == "__debugger__=yes&cmd=resource&f=nope"
QNoCmd == "__debugger__=yes"
QPinAuth == "__debugger__=yes&cmd=pinauth&pin=000&s=SECRET"
QBadSecret == "__debugger__=yes&cmd=pinauth&pin=000&s=guess"

Queries == {QNone, QPlain, QResource, QNoResource, QNoCmd, QPinAuth, QBadSecret}

\* a request: its method, its path, its query string, and its headers and
\* body taken together
Request(m, p, q, b) == [method |-> m, path |-> p, query |-> q, content |-> b]

\* request.args: the query string, parsed
args(q) ==
    CASE q = QResource   -> [debugger |-> "yes", cmd |-> "resource", f |-> "style.css", s |-> ""]
      [] q = QNoResource -> [debugger |-> "yes", cmd |-> "resource", f |-> "nope", s |-> ""]
      [] q = QNoCmd      -> [debugger |-> "yes", cmd |-> "", f |-> "", s |-> ""]
      [] q = QPinAuth    -> [debugger |-> "yes", cmd |-> "pinauth", f |-> "", s |-> "SECRET"]
      [] q = QBadSecret  -> [debugger |-> "yes", cmd |-> "pinauth", f |-> "", s |-> "guess"]
      [] OTHER           -> [debugger |-> "", cmd |-> "", f |-> "", s |-> ""]

(************************** responses *************************************)
Response(st, ct, b, al, v) ==
    [status |-> st, ctype |-> ct, body |-> b, allow |-> al, ran |-> v]

\* a body is a sequence of tokens: punctuation, string literals, whitespace,
\* or one opaque token for a document that is not JSON
Punct(c) == [t |-> "punct", v |-> c]
Str(x) == [t |-> "str", v |-> x]
Ws(x) == [t |-> "ws", v |-> x]
Doc(x) == [t |-> "doc", v |-> x]

RECURSIVE KeySeq(_)
KeySeq(S) ==
    IF S = {} THEN <<>>
    ELSE LET k == CHOOSE x \in S : TRUE IN <<k>> \o KeySeq(S \ {k})

RECURSIVE Members(_, _, _)
Members(keys, obj, indent) ==
    IF keys = <<>> THEN <<>>
    ELSE (IF indent THEN <<Ws("\n  ")>> ELSE <<>>)
         \o <<Str(Head(keys)), Punct(":")>>
         \o (IF indent THEN <<Ws(" ")>> ELSE <<>>)
         \o <<Str(obj[Head(keys)])>>
         \o (IF Len(keys) > 1 THEN <<Punct(",")>> ELSE <<>>)
         \o Members(Tail(keys), obj, indent)

\* json.dumps of a mapping from strings to strings; indent=2 when the
\* application is in debug mode, compact separators otherwise
dumps(obj, indent) ==
    <<Punct("{")>> \o Members(KeySeq(DOMAIN obj), obj, indent)
    \o (IF indent THEN <<Ws("\n")>> ELSE <<>>) \o <<Punct("}")>>

\* jsonify(obj): the serialized mapping and a newline, as application/json
jsonify(obj, debug) ==
    Response(200, "application/json", dumps(obj, debug) \o <<Ws("\n")>>, {}, "")

\* what a JSON parser makes of a body: whitespace is skipped, then
\* '{' "k" ':' "v" (',' "k" ':' "v")* '}' is read into a mapping
SkipWs(b) == SelectSeq(b, LAMBDA x : x.t # "ws")

RECURSIVE PairsOk(_)
PairsOk(ts) ==
    \/ Len(ts) = 3 /\ ts[1].t = "str" /\ ts[2] = Punct(":") /\ ts[3].t = "str"
    \/ /\ Len(ts) > 4
       /\ ts[1].t = "str" /\ ts[2] = Punct(":") /\ ts[3].t = "str"
       /\ ts[4] = Punct(",")
       /\ PairsOk(SubSeq(ts, 5, Len(ts)))

IsJsonObject(b) ==
    LET ts == SkipWs(b) IN
    /\ Len(ts) >= 2
    /\ ts[1] = Punct("{") /\ ts[Len(ts)] = Punct("}")
    /\ (Len(ts) = 2 \/ PairsOk(SubSeq(ts, 2, Len(ts) - 1)))

loads(b) ==
    LET ts == SkipWs(b)
        n == (Len(ts) - 1) \div 4
        keys == {ts[4 * i - 2].v : i \in 1 .. n}
    IN [k \in keys |->
          LET i == CHOOSE j \in 1 .. n : ts[4 * j - 2].v = k IN ts[4 * i].v]

JsonEquivalent(b, obj) == IsJsonObject(b) /\ loads(b) = obj

(*************************** state ****************************************)
VARIABLES
    name,        \* per process: the module's __name__
    pc,          \* per process: the line of main.py it is about to run, or
                 \* "serving", "imported", "fatal", "killed"
    url_map,     \* per process: app.url_map, a set of rules
    debug,       \* per process: app.debug
    dbg,         \* per process: the debugger middleware's frames and its
                 \* count of failed PIN attempts
    listeners,   \* the operating system's listening sockets
    static_dir,  \* the files of the application's static folder
    conn         \* per connection: the request in flight or the response

vars == <<name, pc, url_map, debug, dbg, listeners, static_dir, conn>>

NoRequest == Request("", <<>>, "", "")
NoResponse == Response(0, "", <<>>, {}, "")
FreeConn == [st |-> "free", to |-> 0, req |-> NoRequest, resp |-> NoResponse]
NoDebugger == [frames |-> {}, failed |-> 0]

\* the specification's two states, and the state of a process that has exited
lifecycle(p) ==
    IF pc[p] = "serving" THEN "listening"
    ELSE IF pc[p] \in {"fatal", "killed"} THEN "terminated"
    ELSE "stopped"

Socket(p, h, n) == [proc |-> p, host |-> h, port |-> n]

(*************************** routing **************************************)
\* Flask.add_url_rule: OPTIONS is added to the methods (answered by Flask
\* itself), and a rule that allows GET allows HEAD
add_url_rule(rule, endpoint, methods) ==
    [rule |-> rule, endpoint |-> endpoint,
     methods |-> methods \cup {"OPTIONS"}
                 \cup (IF "GET" \in methods THEN {"HEAD"} ELSE {}),
     provide_automatic_options |-> "OPTIONS" \notin methods]

\* Flask(__name__): static_folder='static', so the application starts with
\* the rule /static/<path:filename>
StaticRule == add_url_rule(<<"static", "<path:filename>">>, "static", {"GET"})

\* mutant of TestRule: the route is registered for every method
TestRuleAnyMethod == add_url_rule(ApiRule, "test", Methods)

\* @app.route('/api/test', methods=['GET'])
TestRule == add_url_rule(ApiRule, "test", RouteMethods)

\* mutant of RuleMatches: a trailing slash of the path is ignored
RECURSIVE RuleMatchesAnySlash(_, _)
RuleMatchesAnySlash(rule, path) ==
    IF rule = <<>> THEN path = <<>> \/ path = <<"">>
    ELSE IF Head(rule) = "<path:filename>"
         THEN Len(rule) = 1 /\ path # <<>> /\ Head(path) # ""
         ELSE /\ path # <<>>
              /\ Head(path) = Head(rule)
              /\ RuleMatchesAnySlash(Tail(rule), Tail(path))

\* a rule matches a path segment by segment; <path:...> takes the rest of
\* the path, which is not empty; a trailing slash is a segment of its own
RECURSIVE RuleMatches(_, _)
RuleMatches(rule, path) ==
    IF rule = <<>> THEN path = <<>>
    ELSE IF Head(rule) = "<path:filename>"
         THEN Len(rule) = 1 /\ path # <<>> /\ Head(path) # ""
         ELSE /\ path # <<>>
              /\ Head(path) = Head(rule)
              /\ RuleMatches(Tail(rule), Tail(path))

NotFound == Response(404, "text/html", <<Doc("Not Found")>>, {}, "")
MethodNotAllowed(allowed) ==
    Response(405, "text/html", <<Doc("Method Not Allowed")>>, allowed, "")

\* the view function of lines 8-9: it takes no argument and does not read
\* the request that line 2 imports
test(isdebug) == [jsonify(Payload, isdebug) EXCEPT !.ran = "test"]

\* Flask.send_static_file
send_static_file(files, filename) ==
    IF filename \in files
    THEN Response(200, "application/octet-stream", <<Doc(filename)>>, {}, "static")
    ELSE [NotFound EXCEPT !.ran = "static"]

\* Flask's dispatch of a request over the URL map
dispatch_request(map, isdebug, files, req) ==
    LET onpath == {r \in map : RuleMatches(r.rule, req.path)}
        allowed == UNION {r.methods : r \in onpath}
    IN IF onpath = {} THEN NotFound
       ELSE IF req.method \notin allowed THEN MethodNotAllowed(allowed)
       ELSE LET r == CHOOSE x \in onpath : req.method \in x.methods IN
            IF r.provide_automatic_options /\ req.method = "OPTIONS"
            THEN Response(200, "text/html", <<>>, r.methods, "")
            ELSE IF r.endpoint = "test" THEN test(isdebug)
            ELSE send_static_file(files, req.path[Len(req.path)])

(********************* the debugger middleware ****************************)
Secret == "SECRET"
ConsolePath == <<"console">>
SharedResources == {"style.css", "debugger.js"}

get_resource(f) ==
    IF f \in SharedResources
    THEN Response(200, IF f = "style.css" THEN "text/css" ELSE "text/javascript",
                  <<Doc(f)>>, {}, "")
    ELSE NotFound

Lit(x) == [t |-> "lit", v |-> x]

PinBody(auth, exhausted) ==
    << Punct("{"), Str("auth"), Punct(":"), Lit(auth), Punct(","),
       Str("exhausted"), Punct(":"), Lit(exhausted), Punct("}") >>

\* pin_auth for a request without a PIN cookie and with a wrong PIN: after
\* more than ten failures the answer is "exhausted", before that the
\* failure is counted
pin_auth(d) ==
    IF d.failed > 10
    THEN [resp |-> Response(200, "application/json", PinBody("false", "true"), {}, ""),
          dbg |-> d]
    ELSE [resp |-> Response(200, "application/json", PinBody("false", "false"), {}, ""),
          dbg |-> [d EXCEPT !.failed = d.failed + 1]]

\* display_console: the console page; its frame is made on the first visit
display_console(d) ==
    [resp |-> Response(200, "text/html", <<Doc("console")>>, {}, ""),
     dbg |-> [d EXCEPT !.frames = d.frames \cup {0}]]

\* DebuggedApplication.__call__
DebuggedApplication(d, map, isdebug, files, req) ==
    LET a == args(req.query)
        app == [resp |-> dispatch_request(map, isdebug, files, req), dbg |-> d]
    IN IF a.debugger = "yes"
       THEN IF a.cmd = "resource" /\ a.f # "" THEN [resp |-> get_resource(a.f), dbg |-> d]
            ELSE IF a.cmd = "pinauth" /\ a.s = Secret THEN pin_auth(d)
            ELSE app
       ELSE IF req.path = ConsolePath THEN display_console(d)
       ELSE app

\* the WSGI application the server calls: run_simple wraps the application
\* in the debugger when use_debugger (= debug) is set; the response to a
\* HEAD request is sent without its body
wsgi_app(d, map, isdebug, files, req) ==
    LET r == IF isdebug THEN DebuggedApplication(d, map, isdebug, files, req)
             ELSE [resp |-> dispatch_request(map, isdebug, files, req), dbg |-> d]
    IN IF req.method = "HEAD" THEN [r EXCEPT !.resp.body = <<>>] ELSE r

(*************************** the script ***********************************)
Init ==
    /\ name \in [Procs -> {MainName, OtherName}]
    /\ pc = [p \in Procs |-> "line5"]
    /\ url_map = [p \in Procs |-> {}]
    /\ debug = [p \in Procs |-> FALSE]
    /\ dbg = [p \in Procs |-> NoDebugger]
    /\ listeners = {}
    /\ static_dir \in {{}, {"app.js"}}
    /\ conn = [c \in Conns |-> FreeConn]

\* line 5: app = Flask(__name__)
CreateApp(p) ==
    /\ pc[p] = "line5"
    /\ url_map' = [url_map EXCEPT ![p] = {StaticRule}]
    /\ pc' = [pc EXCEPT ![p] = "line7"]
    /\ UNCHANGED <<name, debug, dbg, listeners, static_dir, conn>>

\* lines 7-9: @app.route('/api/test', methods=['GET']) def test(): ...
RegisterRoute(p) ==
    /\ pc[p] = "line7"
    /\ url_map' = [url_map EXCEPT ![p] = @ \cup {TestRule}]
    /\ pc' = [pc EXCEPT ![p] = "line11"]
    /\ UNCHANGED <<name, debug, dbg, listeners, static_dir, conn>>

\* mutant of MainGuard: the guard is missing
MainGuardMissing(p) ==
    /\ pc[p] = "line11"
    /\ pc' = [pc EXCEPT ![p] = "line12"]
    /\ UNCHANGED <<name, url_map, debug, dbg, listeners, static_dir, conn>>

\* line 11: if __name__ == '__main__':
MainGuard(p) ==
    /\ pc[p] = "line11"
    /\ pc' = [pc EXCEPT ![p] = IF name[p] = MainName THEN "line12" ELSE "imported"]
    /\ UNCHANGED <<name, url_map, debug, dbg, listeners, static_dir, conn>>

\* mutant of PortFree: the socket is bound with port sharing
PortFreeShared(socks, h, n) == TRUE

\* bind(): the address and port are free when no socket listens on them
PortFree(socks, h, n) == ~ \E s \in socks : s.host = h /\ s.port = n

\* mutant of run: the failure of the bind is ignored
run_ignoring_bind_error(p) ==
    /\ pc[p] = "line12"
    /\ listeners' = IF PortFree(listeners, Host, Port)
                    THEN listeners \cup {Socket(p, Host, Port)}
                    ELSE listeners
    /\ pc' = [pc EXCEPT ![p] = "serving"]
    /\ debug' = [debug EXCEPT ![p] = Debug]
    /\ UNCHANGED <<name, url_map, dbg, static_dir, conn>>

\* line 12: app.run(host='127.0.0.1', port=5000, debug=True). The server
\* socket is bound and listens, or the bind fails and the process exits
\* with status 1.
run(p) ==
    /\ pc[p] = "line12"
    /\ IF PortFree(listeners, Host, Port)
       THEN /\ listeners' = listeners \cup {Socket(p, Host, Port)}
            /\ pc' = [pc EXCEPT ![p] = "serving"]
            /\ debug' = [debug EXCEPT ![p] = Debug]
            /\ UNCHANGED url_map
       ELSE /\ pc' = [pc EXCEPT ![p] = "fatal"]
            /\ url_map' = [url_map EXCEPT ![p] = {}]
            /\ UNCHANGED <<listeners, debug>>
    /\ UNCHANGED <<name, dbg, static_dir, conn>>

\* the serving process is ended from outside (Ctrl-C, kill): its socket is
\* closed, its memory is gone and its open connections are reset
Terminate(p) ==
    /\ pc[p] = "serving"
    /\ pc' = [pc EXCEPT ![p] = "killed"]
    /\ listeners' = {s \in listeners : s.proc # p}
    /\ url_map' = [url_map EXCEPT ![p] = {}]
    /\ debug' = [debug EXCEPT ![p] = FALSE]
    /\ dbg' = [dbg EXCEPT ![p] = NoDebugger]
    /\ conn' = [c \in Conns |->
                  IF conn[c].st = "pending" /\ conn[c].to = p THEN FreeConn ELSE conn[c]]
    /\ UNCHANGED <<name, static_dir>>

\* a client connects to 127.0.0.1:5000 and sends request r
Accept(c, r) ==
    /\ conn[c].st # "pending"
    /\ \E s \in listeners :
          /\ s.host = Host /\ s.port = Port
          /\ conn' = [conn EXCEPT ![c] =
                        [st |-> "pending", to |-> s.proc, req |-> r, resp |-> NoResponse]]
    /\ UNCHANGED <<name, pc, url_map, debug, dbg, listeners, static_dir>>

\* mutant of Handle: answering a request stops the server
HandleAndStop(c) ==
    /\ conn[c].st = "pending"
    /\ LET p == conn[c].to
           r == wsgi_app(dbg[p], url_map[p], debug[p], static_dir, conn[c].req)
       IN /\ pc[p] = "serving"
          /\ conn' = [conn EXCEPT ![c].st = "answered", ![c].resp = r.resp]
          /\ dbg' = [dbg EXCEPT ![p] = r.dbg]
          /\ pc' = [pc EXCEPT ![p] = "line12"]
          /\ listeners' = {s \in listeners : s.proc # p}
    /\ UNCHANGED <<name, url_map, debug, static_dir>>

\* the server calls the WSGI application on the request of connection c and
\* sends the response
Handle(c) ==
    /\ conn[c].st = "pending"
    /\ LET p == conn[c].to
           r == wsgi_app(dbg[p], url_map[p], debug[p], static_dir, conn[c].req)
       IN /\ pc[p] = "serving"
          /\ conn' = [conn EXCEPT ![c].st = "answered", ![c].resp = r.resp]
          /\ dbg' = [dbg EXCEPT ![p] = r.dbg]
    /\ UNCHANGED <<name, pc, url_map, debug, listeners, static_dir>>

(************************ request universes *******************************)
\* every method on every path with every query
Requests == {Request(m, p, q, "") : m \in Methods, p \in Paths, q \in Queries}

\* the requests of the concurrent specification
ConcRequests ==
    { Request("GET", ApiRule, QNone, ""),
      Request("GET", ApiRule, QPlain, "X-Test: 1; data"),
      Request("GET", ApiRule, QResource, ""),
      Request("POST", ApiRule, QNone, "X-Test: 1; data"),
      Request("GET", ConsolePath, QNone, ""),
      Request("GET", <<"unknown">>, QPinAuth, "") }

\* the requests of the specification of the processes
ProcRequests ==
    { Request("GET", ApiRule, QNone, ""),
      Request("GET", <<"unknown">>, QNone, ""),
      Request("GET", ConsolePath, QNone, "") }

FirstProc == CHOOSE p \in Procs : \A q \in Procs : p <= q
FirstConn == CHOOSE c \in Conns : \A d \in Conns : c <= d

ProcStep(p) ==
    \/ CreateApp(p)
    \/ RegisterRoute(p)
    \/ MainGuard(p)
    \/ run(p)
    \/ Terminate(p)

(*************************** specifications *******************************)
\* several processes load main.py; one connection at a time
Next ==
    \/ \E p \in Procs : ProcStep(p)
    \/ \E r \in ProcRequests : Accept(FirstConn, r)
    \/ Handle(FirstConn)

Spec == Init /\ [][Next]_vars

\* one process, one connection at a time, every request
NextHttp ==
    \/ ProcStep(FirstProc)
    \/ \E r \in Requests : Accept(FirstConn, r)
    \/ Handle(FirstConn)

SpecHttp == Init /\ [][NextHttp]_vars

\* one process, several connections open at the same time
NextConc ==
    \/ ProcStep(FirstProc)
    \/ \E c \in Conns, r \in ConcRequests : Accept(c, r)
    \/ \E c \in Conns : Handle(c)

SpecConc == Init /\ [][NextConc]_vars

(***************************** properties *********************************)
Answered(c) == conn[c].st = "answered"
IsNew(c) == conn[c].st = "pending" /\ conn'[c].st = "answered"
ToApiTest(req) == req.path = <<"api", "test">>
ToDebugger(req) == args(req.query).debugger = "yes"
IsTheMessage(resp) ==
    /\ resp.status = 200
    /\ resp.ctype = "application/json"
    /\ JsonEquivalent(resp.body, [message |-> "Python backend is working!"])

\* C1, as claimed: every GET request to the path /api/test is answered with
\* status 200, a JSON content type and a body JSON-equivalent to
\* {"message": "Python backend is working!"}.
C1_Original ==
    \A c \in Conns :
        (Answered(c) /\ conn[c].req.method = "GET" /\ ToApiTest(conn[c].req))
            => IsTheMessage(conn[c].resp)

\* What holds of C1: every GET request to /api/test whose query string does
\* not carry __debugger__=yes is answered with status 200, a JSON content
\* type and a body JSON-equivalent to the message, whatever was requested
\* before.
C1_TestEndpoint ==
    \A c \in Conns :
        (/\ Answered(c)
         /\ conn[c].req.method = "GET"
         /\ ToApiTest(conn[c].req)
         /\ ~ ToDebugger(conn[c].req))
            => IsTheMessage(conn[c].resp)

\* a GET /api/test?x=1 is answered with the message after the console was
\* visited and a PIN attempt has failed
C1_Witness ==
    /\ Answered(FirstConn)
    /\ conn[FirstConn].req = Request("GET", ApiRule, QPlain, "")
    /\ IsTheMessage(conn[FirstConn].resp)
    /\ dbg[FirstProc].frames # {}
    /\ dbg[FirstProc].failed > 0

\* C2, as claimed: a request to /api/test with a method other than GET is
\* answered with 405, never with 200, and test() is not run.
C2_Original ==
    \A c \in Conns :
        (Answered(c) /\ ToApiTest(conn[c].req) /\ conn[c].req.method # "GET")
            => /\ conn[c].resp.status = 405
               /\ conn[c].resp.ran # "test"

\* C2, amended: a request to /api/test with a method other than GET, HEAD
\* and OPTIONS, and without __debugger__=yes in its query string, is
\* answered with 405 and test() is not run; HEAD runs test() and is answered
\* with 200 and no body; OPTIONS is answered with 200 by Flask, without
\* running test().
C2_OtherMethods ==
    \A c \in Conns :
        (Answered(c) /\ ToApiTest(conn[c].req) /\ ~ ToDebugger(conn[c].req))
            => LET m == conn[c].req.method
                   resp == conn[c].resp
               IN /\ m \notin {"GET", "HEAD", "OPTIONS"}
                        => /\ resp.status = 405
                           /\ resp.ran # "test"
                           /\ resp.allow = {"GET", "HEAD", "OPTIONS"}
                  /\ m = "HEAD"
                        => resp.status = 200 /\ resp.ran = "test" /\ resp.body = <<>>
                  /\ m = "OPTIONS"
                        => resp.status = 200 /\ resp.ran # "test"

\* a POST /api/test has been answered with 405
C2_Witness ==
    /\ Answered(FirstConn)
    /\ conn[FirstConn].req = Request("POST", ApiRule, QNone, "")
    /\ conn[FirstConn].resp.status = 405

\* C3, as claimed: a request to any path other than /api/test, with any
\* method, is answered with 404 and never with 200; the server dispatches
\* exactly one route.
C3_Original ==
    /\ \A c \in Conns :
          (Answered(c) /\ ~ ToApiTest(conn[c].req)) => conn[c].resp.status = 404
    /\ \A p \in Procs : pc[p] = "serving" => Cardinality(url_map[p]) = 1

\* C3, amended: a request whose path is neither /api/test nor under
\* /static/ nor /console, and whose query string does not carry
\* __debugger__=yes, is answered with 404 whatever its method; the URL map
\* of a listening server holds two rules, /api/test and Flask's own
\* /static/<path:filename>, and a request under /static/ is answered with
\* 405 for a method other than GET, HEAD and OPTIONS, with 200 for OPTIONS,
\* and for GET and HEAD with 200 if the file exists and 404 if not.
C3_UnknownPath ==
    /\ \A c \in Conns :
          (/\ Answered(c)
           /\ ~ ToApiTest(conn[c].req)
           /\ Head(conn[c].req.path) # "static"
           /\ conn[c].req.path # <<"console">>
           /\ ~ ToDebugger(conn[c].req))
              => conn[c].resp.status = 404
    /\ \A c \in Conns :
          (/\ Answered(c)
           /\ Len(conn[c].req.path) = 2
           /\ Head(conn[c].req.path) = "static"
           /\ ~ ToDebugger(conn[c].req))
              => LET m == conn[c].req.method
                     resp == conn[c].resp
                 IN /\ m \notin {"GET", "HEAD", "OPTIONS"} => resp.status = 405
                    /\ m = "OPTIONS" => resp.status = 200
                    /\ m \in {"GET", "HEAD"}
                          => resp.status
                               = IF conn[c].req.path[2] \in static_dir THEN 200 ELSE 404
    /\ \A p \in Procs :
          pc[p] = "serving"
              => {r.rule : r \in url_map[p]}
                   = {<<"api", "test">>, <<"static", "<path:filename>">>}

\* a DELETE /api/test/ (with a trailing slash) has been answered with 404
C3_Witness ==
    /\ Answered(FirstConn)
    /\ conn[FirstConn].req = Request("DELETE", <<"api", "test", "">>, QPlain, "")
    /\ conn[FirstConn].resp.status = 404

\* C4: a process leaves "stopped" only by app.run, which takes it to
\* "listening" (or ends the process when the bind fails, C6); "listening"
\* is entered from "stopped" only; no step takes a listening server back to
\* "stopped", and a step that answers a request leaves it listening: only
\* the end of the process ends it, and an ended process stays ended.
C4_Lifecycle ==
    [][\A p \in Procs :
          /\ (lifecycle(p) = "stopped" /\ lifecycle(p)' # "stopped")
                => pc[p] = "line12"
          /\ (lifecycle(p) # "listening" /\ lifecycle(p)' = "listening")
                => (lifecycle(p) = "stopped" /\ pc[p] = "line12")
          /\ lifecycle(p) = "listening" => lifecycle(p)' # "stopped"
          /\ (lifecycle(p) = "listening" /\ \E c \in Conns : IsNew(c))
                => lifecycle(p)' = "listening"
          /\ lifecycle(p) = "terminated" => lifecycle(p)' = "terminated"]_vars

\* a listening server has answered a request and is still listening
C4_Witness ==
    \E p \in Procs :
        /\ lifecycle(p) = "listening"
        /\ Answered(FirstConn)
        /\ conn[FirstConn].to = p

\* C5: every listening socket is bound to 127.0.0.1, port 5000, by a
\* listening process in debug mode; at no time do two processes listen; and
\* a process that calls app.run while another one listens is refused (it
\* ends with the fatal error).
C5_ExclusiveBind ==
    /\ [](/\ \A s \in listeners :
                /\ s.host = "127.0.0.1" /\ s.port = 5000
                /\ lifecycle(s.proc) = "listening"
                /\ debug[s.proc]
          /\ \A p \in Procs :
                lifecycle(p) = "listening" => \E s \in listeners : s.proc = p
          /\ Cardinality({p \in Procs : lifecycle(p) = "listening"}) <= 1
          /\ Cardinality(listeners) <= 1)
    /\ [][\A p \in Procs :
            (/\ pc[p] = "line12" /\ pc'[p] # "line12"
             /\ \E q \in Procs \ {p} : lifecycle(q) = "listening")
                => pc'[p] = "fatal"]_vars

\* one process listens and a second one was refused
C5_Witness ==
    \E p, q \in Procs :
        /\ lifecycle(p) = "listening"
        /\ Socket(p, "127.0.0.1", 5000) \in listeners
        /\ pc[q] = "fatal"

\* C6: app.run with the address and port taken ends the process; the ended
\* process comes from line 12 and never from "listening", owns no socket,
\* has no connection, and stays ended.
C6_BindFailure ==
    [][\A p \in Procs :
          /\ (pc[p] = "line12" /\ pc'[p] # "line12"
              /\ \E s \in listeners : s.host = "127.0.0.1" /\ s.port = 5000)
                => pc'[p] = "fatal"
          /\ pc'[p] = "fatal"
                => /\ pc[p] \in {"line12", "fatal"}
                   /\ lifecycle(p)' = "terminated"
                   /\ \A s \in listeners' : s.proc # p
                   /\ \A c \in Conns : conn'[c].to # p
          /\ pc[p] = "fatal" => pc'[p] = "fatal"]_vars

\* a process has failed to bind while the first one answered a request
C6_Witness ==
    \E p, q \in Procs :
        /\ pc[q] = "fatal"
        /\ lifecycle(p) = "listening"
        /\ Answered(FirstConn)
        /\ conn[FirstConn].to = p

ServerState == <<name, pc, url_map, debug, dbg, listeners, static_dir>>

\* C7, as claimed: answering a request leaves the server's state as it
\* was.
C7_Original == [][(\E c \in Conns : IsNew(c)) => UNCHANGED ServerState]_vars

\* What holds of C7: answering a request leaves the URL map, the position of
\* every process, the listening sockets and the debug flag as they were;
\* only the debugger's own state changes, and only for a request to
\* /console or with __debugger__=yes.
C7_ApplicationState ==
    [][\A c \in Conns :
          IsNew(c)
             => /\ UNCHANGED <<name, pc, url_map, debug, listeners, static_dir>>
                /\ dbg' # dbg
                      => \/ conn[c].req.path = <<"console">>
                         \/ ToDebugger(conn[c].req)]_vars

\* C8, as claimed: two GET requests to /api/test receive the same status
\* and the same body, whatever their query strings, headers and bodies.
C8_Original ==
    \A c, d \in Conns :
        (/\ Answered(c) /\ conn[c].req.method = "GET" /\ ToApiTest(conn[c].req)
         /\ Answered(d) /\ conn[d].req.method = "GET" /\ ToApiTest(conn[d].req))
            => /\ conn[c].resp.status = conn[d].resp.status
               /\ conn[c].resp.body = conn[d].resp.body

\* What holds of C8: two GET requests to /api/test of which neither carries
\* __debugger__=yes receive the same status and the same body.
C8_SameResponse ==
    \A c, d \in Conns :
        (/\ Answered(c) /\ conn[c].req.method = "GET" /\ ToApiTest(conn[c].req)
         /\ Answered(d) /\ conn[d].req.method = "GET" /\ ToApiTest(conn[d].req)
         /\ ~ ToDebugger(conn[c].req) /\ ~ ToDebugger(conn[d].req))
            => /\ conn[c].resp.status = conn[d].resp.status
               /\ conn[c].resp.body = conn[d].resp.body

\* the response to req of a server that has answered no other request
Alone(req) ==
    wsgi_app(NoDebugger, {StaticRule, TestRule}, TRUE, static_dir, req).resp

\* C9, as claimed: with several requests in flight, each request receives
\* the response it would receive if it were handled alone.
C9_Original ==
    \A c \in Conns : Answered(c) => conn[c].resp = Alone(conn[c].req)

\* What holds of C9: each request other than the debugger's PIN check
\* receives the response it would receive if it were handled alone.
C9_Independent ==
    \A c \in Conns :
        (Answered(c) /\ args(conn[c].req.query).cmd # "pinauth")
            => conn[c].resp = Alone(conn[c].req)

IsTestRoute(r) == r.rule = <<"api", "test">> /\ "GET" \in r.methods

=============================================================================
